---- MODULE Spec2Model ----
(***************************************************************************)
(* Model of the stock -> Telegram relay endpoints of                       *)
(* salahhotan/stock_telegram_sender.                                       *)
(*                                                                         *)
(* The repository holds six handler modules.  Three relay a quote:         *)
(*   "cache"      src/api/send.js:18        (cache, no error alert)        *)
(*   "alert"      src/unnamed/part_000:37   (error alert, no cache)        *)
(*   "alertcache" src/unnamed/part_001:225  (error alert and cache)        *)
(* and three send a moving-average signal for a fixed symbol:              *)
(*   "signal"     src/api/send.js:254       (alert in an inner try)        *)
(*   "retry"      src/api/send.js:418       (TelegramService, 3 attempts)  *)
(*   "conntest"   src/unnamed/part_001:114  (connection test first)        *)
(*                                                                         *)
(* One deployment runs one variant; the variant and the environment are    *)
(* fixed when the module is loaded.  Invocations interleave only at their  *)
(* awaits, so each action below is one run of a handler from one           *)
(* suspension point to the next.  Numbers are held as integers scaled by   *)
(* 10^4 (150.1234 is 1501234).                                             *)
(***************************************************************************)
EXTENDS Integers, Sequences, FiniteSets, TLC

\* ------------------------------------------------------------ bounds
\* Invocations that may be in flight together (and in one behaviour).
MaxInFlight == 2
\* Steps the clock may take.
MaxTicks == 2

Req == 1..MaxInFlight

\* ------------------------------------------------------------ constants
CACHE_TTL == 30000
maxRetries == 3
BACKOFF_UNIT == 1000
SHORT_WINDOW == 5
LONG_WINDOW == 20

QuoteVariants == {"cache", "alert", "alertcache"}
SignalVariants == {"signal", "retry", "conntest"}
CachingVariants == {"cache", "alertcache"}
AlertingVariants == {"alert", "alertcache"}
Variants == QuoteVariants \cup SignalVariants

\* ------------------------------------------------------------ environment
\* process.env values: "UNSET" is undefined, "" the empty string, " " blank.
Falsy(s) == s \in {"UNSET", ""}

\* String.prototype.trim behind ?. : undefined stays undefined.
Trim(s) == IF s = " " THEN "" ELSE s

\* /^(sandbox_|c[a-z0-9]+)/i on the key values of the model.
KeyFormatOk(k) == k \in {"c0key", "sandbox_k"}

KeyValues(v) ==
  IF v = "conntest" THEN {"UNSET", "", " ", "c0key", "zzkey"}
  ELSE {"UNSET", "", "c0key"}
CredValues == {"UNSET", "", "set"}
NodeEnvs == {"production", "development"}

\* ------------------------------------------------------------ symbols
\* req.query.symbol: undefined, a string (a sequence of characters) or an
\* array of strings (a repeated query parameter).
SymAbsent == [k |-> "undefined", s |-> <<>>]
SymStr(s) == [k |-> "string", s |-> s]
SymArray == [k |-> "array", s |-> <<"A", "A">>]

UpperLetters == {"A", "F"}

RECURSIVE ToUpperCase(_)
\* String.prototype.toUpperCase, character by character.
ToUpperCase(s) ==
  IF s = <<>> THEN <<>>
  ELSE LET c == Head(s)
           u == IF c = "a" THEN <<"A">>
                ELSE IF c = "f" THEN <<"F">>
                ELSE <<c>>
       IN u \o ToUpperCase(Tail(s))

\* SYMBOL_REGEX = /^[A-Z]{1,5}$/ .test(s)
SYMBOL_REGEX(s) ==
  /\ Len(s) >= 1
  /\ Len(s) <= 5
  /\ \A i \in 1..Len(s) : s[i] \in UpperLetters

InputSymbols ==
  { SymAbsent, SymArray,
    SymStr(<<>>), SymStr(<<"a", "a">>), SymStr(<<"A", "A">>), SymStr(<<"F">>),
    SymStr(<<"A", "1">>), SymStr(<<"A", "A", "A", "A", "A", "A">>) }

Methods == {"GET", "OPTIONS"}

\* !symbol
SymbolFalsy(sym) == sym.k = "undefined" \/ (sym.k = "string" /\ sym.s = <<>>)

\* symbol.toUpperCase is not a function: a TypeError thrown outside any try.
SymbolThrows(sym) == ~SymbolFalsy(sym) /\ sym.k # "string"

\* Variant of SymbolInvalid that drops the test of the pattern.
SymbolInvalidFalsyOnly(sym) == SymbolFalsy(sym)

\* !symbol || !SYMBOL_REGEX.test(symbol.toUpperCase()), where it is evaluated
SymbolInvalid(sym) == SymbolFalsy(sym) \/ ~SYMBOL_REGEX(ToUpperCase(sym.s))

\* ------------------------------------------------------------ quote data
Num(n) == [k |-> "num", v |-> n]
Null == [k |-> "null", v |-> 0]
Undef == [k |-> "undef", v |-> 0]

Quote(c, h, l, o, pc, dp, t) ==
  [c |-> c, h |-> h, l |-> l, o |-> o, pc |-> pc, dp |-> dp, t |-> t]

NoQuote == Quote(Undef, Undef, Undef, Undef, Undef, Undef, Undef)

QUp == Quote(Num(1501234), Num(1510000), Num(1475000), Num(1490000),
             Num(1480000), Num(15000), Num(1700000000))
QDown == Quote(Num(990000), Num(1010000), Num(985000), Num(1005000),
               Num(1000000), Num(-10000), Num(1700000060))
QNotFound == Quote(Num(0), Num(0), Num(0), Num(0), Num(0), Null, Num(0))

\* axios response.data: an object with the fields above, JSON null, or text.
DataObj(q) == [t |-> "object", q |-> q]
DataNull == [t |-> "null", q |-> NoQuote]
DataText == [t |-> "string", q |-> NoQuote]

\* {} : an object that carries none of the numeric fields.
DataEmptyObj == DataObj(NoQuote)

ProviderData ==
  { DataObj(QUp), DataObj(QDown), DataObj(QNotFound), DataEmptyObj,
    DataNull, DataText }

\* Variant of NotAnObject that only rejects null.
NotAnObjectNullOnly(d) == d.t = "null"

\* !quoteData || typeof quoteData !== 'object'
NotAnObject(d) == d.t # "object"

\* Variant of NoDataQuote that looks for an absent percent change.
NoDataQuoteUndef(q) == q.c = Num(0) /\ q.dp = Undef

\* quoteData.c === 0 && quoteData.dp === null
NoDataQuote(q) == q.c = Num(0) /\ q.dp = Null

\* ------------------------------------------------------------ errors
\* What a rejected axios / client call carries: message, code and
\* response.status (0 when there is no response).
Err(m, code, rs) == [message |-> m, code |-> code, status |-> rs]
NoErr == Err("", "", 0)

ErrHttp(s) ==
  Err(IF s = 429 THEN "Request failed with status code 429"
      ELSE "Request failed with status code 500", "ERR_BAD_RESPONSE", s)
ErrTimeout == Err("timeout exceeded", "ECONNABORTED", 0)
ErrNetwork == Err("getaddrinfo ENOTFOUND", "ENOTFOUND", 0)

CallErrors == {ErrHttp(429), ErrTimeout, ErrNetwork}

\* ------------------------------------------------------------ formatting
\* Rendered numbers: "150.12" is Fixed(15012); the literals N/A and NaN.
Fixed(cents) == [k |-> "fixed", v |-> cents]
NA == [k |-> "na", v |-> 0]
NaNText == [k |-> "nan", v |-> 0]

Abs(n) == IF n < 0 THEN -n ELSE n

\* Number.prototype.toFixed(2) of a value scaled by 10^4, in hundredths:
\* the nearest hundredth, the larger magnitude on a tie.
ToFixed2(v) ==
  LET n == (Abs(v) + 50) \div 100
  IN Fixed(IF v < 0 THEN -n ELSE n)

\* JS truthiness of a numeric field: null, undefined and 0 are falsy.
Truthy(x) == x.k = "num" /\ x.v # 0

\* x >= 0 after ToNumber: null is 0, undefined is NaN (never >= 0).
GeqZero(x) == (x.k = "num" /\ x.v >= 0) \/ x.k = "null"

\* Variant of formatPrice that prints a missing value as 0.00.
formatPriceZero(x) == IF x.k \in {"null", "undef"} THEN Fixed(0) ELSE ToFixed2(x.v)

\* formatPrice of src/api/send.js:89 and src/unnamed/part_001:312
formatPrice(x) == IF x.k \in {"null", "undef"} THEN NA ELSE ToFixed2(x.v)

\* formatPrice of src/unnamed/part_000:103: value?.toFixed(2) ?? 'N/A'
formatPriceAlert(x) == IF x.k \in {"null", "undef"} THEN NA ELSE ToFixed2(x.v)

\* (quoteData.c - quoteData.pc).toFixed(2): undefined makes NaN, null is 0.
Delta2(c, pc) ==
  IF c.k = "undef" \/ pc.k = "undef" THEN NaNText
  ELSE ToFixed2((IF c.k = "num" THEN c.v ELSE 0)
                - (IF pc.k = "num" THEN pc.v ELSE 0))

Msg(sym, price, dir, change, sign, pct, o, h, l, prev, closed, ts) ==
  [symbol |-> sym, price |-> price, dir |-> dir, change |-> change,
   sign |-> sign, pct |-> pct, open |-> o, high |-> h, low |-> l,
   prev |-> prev, closed |-> closed, ts |-> ts]

NoMsg == Msg(<<>>, NA, "", NA, "", NA, NA, NA, NA, NA, FALSE, Undef)

\* quoteData.t ? new Date(quoteData.t * 1000) : new Date()
MsgTime(q, clock) == IF Truthy(q.t) THEN q.t ELSE Num(clock)

\* The message text built by the caching handlers.
FormatMessage(sym, q, clock) ==
  Msg(sym,
      formatPrice(q.c),
      IF GeqZero(q.dp) THEN "up" ELSE "down",
      IF Truthy(q.c) /\ Truthy(q.pc) THEN Delta2(q.c, q.pc) ELSE NA,
      IF GeqZero(q.dp) THEN "+" ELSE "",
      IF Truthy(q.dp) THEN formatPrice(q.dp) ELSE Fixed(0),
      formatPrice(q.o), formatPrice(q.h), formatPrice(q.l),
      formatPrice(q.pc),
      q.c = q.pc,
      MsgTime(q, clock))

\* The message text built by the alerting handler without a cache.
FormatMessageAlert(sym, q, clock) ==
  Msg(sym,
      formatPriceAlert(q.c),
      IF GeqZero(q.dp) THEN "up" ELSE "down",
      Delta2(q.c, q.pc),
      IF GeqZero(q.dp) THEN "+" ELSE "",
      formatPriceAlert(q.dp),
      formatPriceAlert(q.o), formatPriceAlert(q.h), formatPriceAlert(q.l),
      formatPriceAlert(q.pc),
      q.c = q.pc,
      MsgTime(q, clock))

\* ------------------------------------------------------------ responses
\* The JSON body of a response.  success is "true", "false" or "none" (the
\* signal handlers have no such field); message is the message / error
\* title; error the optional detail; at a timestamp field (-1: none).
Detail(m, code, rs, sym, stack, at) ==
  [present |-> TRUE, message |-> m, code |-> code, status |-> rs,
   symbol |-> sym, stack |-> stack, at |-> at]
NoDetail ==
  [present |-> FALSE, message |-> "", code |-> "", status |-> 0,
   symbol |-> <<>>, stack |-> FALSE, at |-> -1]

Payload(sym, c, dp, t, sig) ==
  [symbol |-> sym, currentPrice |-> c, percentChange |-> dp,
   timestamp |-> t, signal |-> sig]
NoPayload == Payload(<<>>, Undef, Undef, Undef, "")

Body(succ, m, data, det, at) ==
  [empty |-> FALSE, success |-> succ, message |-> m, data |-> data,
   error |-> det, at |-> at]

\* res.status(200).end(): no body at all.
NoBody ==
  [empty |-> TRUE, success |-> "none", message |-> "", data |-> NoPayload,
   error |-> NoDetail, at |-> -1]

Fail(m) == Body("false", m, NoPayload, NoDetail, -1)

\* responseData of the quote handlers
QuoteSuccess(v, sym, q) ==
  Body("true", IF v = "alert" THEN "sent successfully"
               ELSE "sent to Telegram successfully",
       Payload(sym, q.c, q.dp, q.t, ""), NoDetail, -1)

ConfigBody == Fail("Server configuration error")
SymbolBody == Fail("Invalid stock symbol")
NotFoundBody == Fail("No data available for symbol")
FormatBody == Fail("Received invalid data from stock service")
RateLimitBody == Fail("Rate limit exceeded")
TimeoutBody == Fail("Request timeout")

\* The generic 500 body of the quote handlers; the detail only when
\* NODE_ENV is development.
GenericBody(v, env, e, sym, caughtAt) ==
  Body("false",
       IF v = "cache" THEN "Failed to fetch stock data. Please try again later."
       ELSE "Failed to fetch stock data. Our team has been notified.",
       NoPayload,
       IF env # "development" THEN NoDetail
       ELSE IF v = "alert"
            THEN Detail(e.message, e.code, e.status, sym, FALSE, caughtAt)
            ELSE Detail(e.message, "", 0, <<>>, FALSE, -1),
       -1)

\* Variant of CatchStatus without the branch for a timeout.
CatchStatusNoTimeout(e) == IF e.status = 429 THEN 429 ELSE 500

\* The status and body the catch block of a quote handler answers with.
CatchStatus(e) ==
  IF e.status = 429 THEN 429
  ELSE IF e.code = "ECONNABORTED" THEN 504
  ELSE 500

CatchBody(v, env, e, sym, caughtAt) ==
  IF e.status = 429 THEN RateLimitBody
  ELSE IF e.code = "ECONNABORTED" THEN TimeoutBody
  ELSE GenericBody(v, env, e, sym, caughtAt)

\* The 500 body of the signal handlers: error.message always goes out.
SignalFailBody(v, env, e, clock) ==
  Body("none",
       IF v = "signal" THEN "Internal server error" ELSE "Trading signal failed",
       NoPayload,
       Detail(e.message, "", 0, <<>>, v = "conntest" /\ env = "development", -1),
       IF v = "retry" THEN clock ELSE -1)

\* The 200 body of the signal handlers (status, signal, price).
SignalSuccess(v, sig, price, clock) ==
  Body("none", "success", Payload(<<>>, price, Undef, Undef, sig), NoDetail,
       IF v = "conntest" THEN -1 ELSE clock)

\* ------------------------------------------------------------ state
VARIABLES
  variant,       \* which handler module is deployed
  env,           \* process.env as read by the module
  now,           \* Date.now()
  ticks,         \* clock steps taken
  requestCache,  \* the Map of the caching handlers: key -> entry
  req            \* the invocations

vars == <<variant, env, now, ticks, requestCache, req>>

\* An invocation that has not started.
Fresh ==
  [pc |-> "idle", method |-> "", symbol |-> SymAbsent, key |-> <<>>,
   quoteCalls |-> 0, newsCalls |-> 0, sendCalls |-> 0, alertCalls |-> 0,
   cacheRead |-> FALSE, cacheWrote |-> FALSE, hit |-> FALSE, hitAge |-> -1,
   dat |-> DataNull, err |-> NoErr, cont |-> "", caughtAt |-> -1,
   sent |-> NoMsg, attempts |-> 0, delays |-> <<>>, signal |-> "",
   price |-> Undef, alertOk |-> "none", fetched |-> FALSE,
   seen |-> "none", sendFailures |-> 0, closes |-> <<>>, status |-> 0,
   body |-> NoBody]

\* Outcomes of an awaited outbound call.
Ok(d) == [ok |-> TRUE, data |-> d, err |-> NoErr]
Failed(e) == [ok |-> FALSE, data |-> DataNull, err |-> e]
FetchOutcomes == {Ok(d) : d \in ProviderData} \cup {Failed(e) : e \in CallErrors}
SendOutcomes == {Ok(DataNull)} \cup {Failed(e) : e \in CallErrors}
AlertOutcomes == {"ok", "fail", "timeout"}

\* What the alert helper makes of the outcome of its post: it returns true,
\* or catches the error, logs it and returns false.
AlertResult(outcome) == IF outcome = "ok" THEN "true" ELSE "false"

\* res.status(st).json(b) / .end(), then return
Respond(rec, st, b) == [rec EXCEPT !.pc = "done", !.status = st, !.body = b]

\* Variant of ConfigMissing that forgets the chat id.
ConfigMissingNoChat(e) == Falsy(e.finnhubKey) \/ Falsy(e.telegramToken)

\* !FINNHUB_API_KEY || !TELEGRAM_BOT_TOKEN || !TELEGRAM_CHAT_ID
ConfigMissing(e) ==
  Falsy(e.finnhubKey) \/ Falsy(e.telegramToken) \/ Falsy(e.chatId)

\* sendTelegramAlert / sendErrorToTelegram return at once without a token
\* or a chat id; otherwise they post and the handler awaits the outcome.
AlertSkipped(e) == Falsy(e.telegramToken) \/ Falsy(e.chatId)

\* Variant of StartAlert that answers the caller first and leaves the alert
\* running behind the response.
StartAlertDetached(e, rec, cont) ==
  [rec EXCEPT !.pc = "alerting", !.cont = cont,
              !.alertCalls = rec.alertCalls + 1,
              !.status = 500, !.body = Fail("Server configuration error")]

\* await sendTelegramAlert(...) with the response still to be produced.
StartAlert(e, rec, cont) ==
  [rec EXCEPT !.pc = "alerting", !.cont = cont,
              !.alertCalls = rec.alertCalls + 1]

\* Variant of CacheLive that still serves an entry of age CACHE_TTL.
CacheLiveInclusive(entryTime, clock) == clock - entryTime <= CACHE_TTL

\* Date.now() - cached.timestamp < CACHE_TTL
CacheLive(entryTime, clock) == clock - entryTime < CACHE_TTL

\* requestCache.has(cacheKey) and the entry is live
CacheHit(cache, key, clock) ==
  key \in DOMAIN cache /\ CacheLive(cache[key].timestamp, clock)

\* The time a catch block keeps for its response: only errorDetails of
\* src/unnamed/part_000:150 holds one.
CaughtAt(v, clock) == IF v = "alert" THEN clock ELSE -1

\* Variant of QuoteCatch that calls the quote provider a second time when
\* the first call was rejected.
QuoteCatchRefetch(v, e, clock, rec, er) ==
  IF rec.pc = "fetching" /\ ~rec.fetched /\ rec.quoteCalls < 2
  THEN [rec EXCEPT !.quoteCalls = rec.quoteCalls + 1]
  ELSE IF v = "cache"
  THEN Respond([rec EXCEPT !.err = er],
               CatchStatus(er), CatchBody(v, e.nodeEnv, er, rec.key, -1))
  ELSE StartAlert(e, [rec EXCEPT !.err = er, !.caughtAt = CaughtAt(v, clock)],
                  "catch")

\* The catch block of a quote handler, entered with error e.
QuoteCatch(v, e, clock, rec, er) ==
  IF v = "cache"
  THEN Respond([rec EXCEPT !.err = er],
               CatchStatus(er), CatchBody(v, e.nodeEnv, er, rec.key, -1))
  ELSE StartAlert(e, [rec EXCEPT !.err = er, !.caughtAt = CaughtAt(v, clock)],
                  "catch")

\* Variant of Preflight that compares with the wrong spelling.
PreflightLower(m) == m = "options"

\* req.method === 'OPTIONS'
Preflight(m) == m = "OPTIONS"

\* Variant of CacheKey that keys by the symbol as typed.
CacheKeyRaw(sym) == sym.s

\* cacheKey = `symbol:${symbol.toUpperCase()}` (the prefix is left out)
CacheKey(sym) == ToUpperCase(sym.s)

\* Variant of QuoteBegin that validates the symbol before the configuration.
QuoteBeginSymbolFirst(v, e, cache, clock, m, sym) ==
  LET base == [Fresh EXCEPT !.method = m, !.symbol = sym]
      key == CacheKey(sym)
      keyed == [base EXCEPT !.key = key, !.cacheRead = (v \in CachingVariants)]
  IN IF Preflight(m) THEN Respond(base, 200, NoBody)
     ELSE IF SymbolThrows(sym) THEN [base EXCEPT !.pc = "crashed"]
     ELSE IF SymbolInvalid(sym)
       THEN IF v \in AlertingVariants /\ ~AlertSkipped(e)
            THEN StartAlert(e, base, "symbol")
            ELSE Respond(base, 400, SymbolBody)
     ELSE IF ConfigMissing(e)
       THEN IF v \in AlertingVariants /\ ~AlertSkipped(e)
            THEN StartAlert(e, base, "config")
            ELSE Respond(base, 500, ConfigBody)
     ELSE IF v \in CachingVariants /\ CacheHit(cache, key, clock)
       THEN Respond([keyed EXCEPT !.hit = TRUE,
                                  !.hitAge = clock - cache[key].timestamp],
                    200, cache[key].data)
     ELSE [keyed EXCEPT !.pc = "fetching", !.quoteCalls = 1]

\* A quote handler from its entry to its first await or its response.
QuoteBegin(v, e, cache, clock, m, sym) ==
  LET base == [Fresh EXCEPT !.method = m, !.symbol = sym]
      key == CacheKey(sym)
      keyed == [base EXCEPT !.key = key, !.cacheRead = (v \in CachingVariants)]
  IN IF Preflight(m) THEN Respond(base, 200, NoBody)
     ELSE IF ConfigMissing(e)
       THEN IF v \in AlertingVariants /\ ~AlertSkipped(e)
            THEN StartAlert(e, base, "config")
            ELSE Respond(base, 500, ConfigBody)
     ELSE IF SymbolThrows(sym) THEN [base EXCEPT !.pc = "crashed"]
     ELSE IF SymbolInvalid(sym)
       THEN IF v \in AlertingVariants
            THEN StartAlert(e, base, "symbol")
            ELSE Respond(base, 400, SymbolBody)
     ELSE IF v \in CachingVariants /\ CacheHit(cache, key, clock)
       THEN Respond([keyed EXCEPT !.hit = TRUE,
                                  !.hitAge = clock - cache[key].timestamp],
                    200, cache[key].data)
     ELSE [keyed EXCEPT !.pc = "fetching", !.quoteCalls = 1]

FormatError == Err("Invalid response format from Finnhub", "", 0)

\* A quote handler from the return of axios.get to its next await or its
\* response.
QuoteAfterFetch(v, e, clock, rec, out) ==
  IF ~out.ok THEN QuoteCatch(v, e, clock, rec, out.err)
  ELSE LET got == [rec EXCEPT !.dat = out.data, !.fetched = TRUE]
           q == out.data.q
       IN IF NotAnObject(out.data)
          THEN IF v = "cache" THEN QuoteCatch(v, e, clock, got, FormatError)
               ELSE IF v = "alert" THEN StartAlert(e, got, "format")
               ELSE StartAlert(e, got, "formatThrow")
          ELSE IF NoDataQuote(q)
          THEN IF v = "cache" THEN Respond(got, 404, NotFoundBody)
               ELSE StartAlert(e, got, "notfound")
          ELSE [got EXCEPT !.pc = "sending",
                           !.sendCalls = rec.sendCalls + 1,
                           !.sent = IF v = "alert"
                                    THEN FormatMessageAlert(rec.key, q, clock)
                                    ELSE FormatMessage(rec.key, q, clock)]

\* Variant of CacheEntry that stamps the entry with the time the module was
\* loaded instead of the time of the write.
CacheEntryLoadTime(clock, data) == [timestamp |-> 0, data |-> data]

\* The entry requestCache.set stores.
CacheEntry(clock, data) == [timestamp |-> clock, data |-> data]

\* Variant of QuoteAfterSend that answers with the success payload whether or
\* not the post was accepted.
QuoteAfterSendIgnoreFailure(v, e, clock, rec, out) ==
  Respond([rec EXCEPT !.cacheWrote = (v \in CachingVariants)],
          200, QuoteSuccess(v, rec.key, rec.dat.q))

\* Variant of QuoteAfterSend that stores an entry whatever the post did.
QuoteAfterSendCacheAlways(v, e, clock, rec, out) ==
  IF ~out.ok
  THEN [QuoteCatch(v, e, clock, rec, out.err)
          EXCEPT !.cacheWrote = (v \in CachingVariants)]
  ELSE Respond([rec EXCEPT !.cacheWrote = (v \in CachingVariants)],
               200, QuoteSuccess(v, rec.key, rec.dat.q))

\* A quote handler from the return of axios.post to its response.
QuoteAfterSend(v, e, clock, rec, out) ==
  IF ~out.ok THEN QuoteCatch(v, e, clock, rec, out.err)
  ELSE Respond([rec EXCEPT !.cacheWrote = (v \in CachingVariants)],
               200, QuoteSuccess(v, rec.key, rec.dat.q))

\* What a quote handler does once its alert helper has returned: the
\* response of the failure at hand (or, after the alert of a malformed quote
\* in the caching variant, the throw into the catch block and its alert).
QuoteAlertResume(v, e, rec) ==
  IF rec.cont = "config" THEN Respond(rec, 500, ConfigBody)
  ELSE IF rec.cont = "symbol" THEN Respond(rec, 400, SymbolBody)
  ELSE IF rec.cont = "format" THEN Respond(rec, 502, FormatBody)
  ELSE IF rec.cont = "notfound" THEN Respond(rec, 404, NotFoundBody)
  ELSE IF rec.cont = "formatThrow"
    THEN StartAlert(e, [rec EXCEPT !.err = FormatError], "catch")
  ELSE Respond(rec, CatchStatus(rec.err),
               CatchBody(v, e.nodeEnv, rec.err, rec.key, rec.caughtAt))

\* Variant of QuoteAfterAlert in which a failed alert becomes the response.
QuoteAfterAlertEscalate(v, e, rec, result) ==
  IF result = "ok"
  THEN QuoteAlertResume(v, e, [rec EXCEPT !.alertOk = AlertResult(result)])
  ELSE Respond([rec EXCEPT !.alertOk = AlertResult(result)], 500,
               Fail("Failed to send error alert"))

\* A quote handler from the settling of its alert to its response.
QuoteAfterAlert(v, e, rec, result) ==
  QuoteAlertResume(v, e, [rec EXCEPT !.alertOk = AlertResult(result)])

\* ------------------------------------------------------------ candles
\* stockCandles data: the status s and the closing prices c (an array, or
\* absent).
Candles(st, has, c) == [s |-> st, hasC |-> has, c |-> c]
NoCandles == Candles("", FALSE, <<>>)

Flat(n, x) == [i \in 1..n |-> x]

SeriesShort == <<1000000, 1010000, 1020000>>
SeriesTwenty == Flat(20, 1000000)
SeriesHold == Flat(21, 1000000)
SeriesBuy == Flat(15, 1000000) \o Flat(5, 900000) \o <<2000000>>
SeriesSell == Flat(15, 1000000) \o Flat(5, 1100000) \o <<100000>>

CandleData ==
  { Candles("ok", TRUE, SeriesShort), Candles("ok", TRUE, SeriesTwenty),
    Candles("ok", TRUE, SeriesHold), Candles("ok", TRUE, SeriesBuy),
    Candles("ok", TRUE, SeriesSell), Candles("ok", TRUE, <<>>),
    Candles("ok", FALSE, <<>>), Candles("no_data", FALSE, <<>>) }

CandleOk(cd) == [ok |-> TRUE, candles |-> cd, err |-> NoErr]
CandleFailed(e) == [ok |-> FALSE, candles |-> NoCandles, err |-> e]
SignalErrors == {ErrHttp(429), ErrNetwork}
CandleOutcomes ==
  {CandleOk(cd) : cd \in CandleData} \cup {CandleFailed(e) : e \in SignalErrors}
BotOutcomes == {Ok(DataNull)} \cup {Failed(e) : e \in SignalErrors}

RECURSIVE SumSeq(_)
SumSeq(xs) == IF xs = <<>> THEN 0 ELSE Head(xs) + SumSeq(Tail(xs))

\* data.slice(-window)
LastN(xs, n) == SubSeq(xs, Len(xs) - n + 1, Len(xs))

\* data.slice(0, -1)
DropLast(xs) == SubSeq(xs, 1, Len(xs) - 1)

\* A moving average as the exact fraction sum / w; k is "null" or "nan"
\* when there are fewer than w values.
Sma(k, sum, w) == [k |-> k, sum |-> sum, w |-> w]

\* calculateSMA of src/api/send.js:222 (null when data is too short)
calculateSMA(data, window) ==
  IF Len(data) < window THEN Sma("null", 0, window)
  ELSE Sma("num", SumSeq(LastN(data, window)), window)

\* calculateSMA of src/api/send.js:478 and src/unnamed/part_001:172 (NaN)
calculateSMANaN(data, window) ==
  IF Len(data) < window THEN Sma("nan", 0, window)
  ELSE Sma("num", SumSeq(LastN(data, window)), window)

\* a < b on two averages; any comparison with NaN is false
SmaLess(a, b) == a.k = "num" /\ b.k = "num" /\ a.sum * b.w < b.sum * a.w

\* Boolean(x) of an average: null, NaN and 0 are falsy
SmaTruthy(a) == a.k = "num" /\ a.sum # 0

\* generateSignal of src/api/send.js:230
generateSignal(cd) ==
  IF ~cd.hasC THEN "ANALYSIS_FAILED"
  ELSE IF Len(cd.c) < LONG_WINDOW THEN "INSUFFICIENT_DATA"
  ELSE LET shortSMA == calculateSMA(cd.c, SHORT_WINDOW)
           longSMA == calculateSMA(cd.c, LONG_WINDOW)
           prevShortSMA == calculateSMA(DropLast(cd.c), SHORT_WINDOW)
           prevLongSMA == calculateSMA(DropLast(cd.c), LONG_WINDOW)
       IN IF ~(SmaTruthy(shortSMA) /\ SmaTruthy(longSMA)
               /\ SmaTruthy(prevShortSMA) /\ SmaTruthy(prevLongSMA))
          THEN "ANALYSIS_ERROR"
          ELSE IF SmaLess(prevShortSMA, prevLongSMA) /\ SmaLess(longSMA, shortSMA)
          THEN "BUY"
          ELSE IF SmaLess(prevLongSMA, prevShortSMA) /\ SmaLess(shortSMA, longSMA)
          THEN "SELL"
          ELSE "HOLD"

\* sma5 > sma20 ? 'BUY' : 'HOLD'   (src/api/send.js:440)
RetrySignal(c) ==
  IF SmaLess(calculateSMANaN(c, LONG_WINDOW), calculateSMANaN(c, SHORT_WINDOW))
  THEN "BUY" ELSE "HOLD"

\* sma5 > sma20 ? 'BUY' : sma5 < sma20 ? 'SELL' : 'HOLD'  (part_001:142)
ConnTestSignal(c) ==
  IF SmaLess(calculateSMANaN(c, LONG_WINDOW), calculateSMANaN(c, SHORT_WINDOW))
  THEN "BUY"
  ELSE IF SmaLess(calculateSMANaN(c, SHORT_WINDOW), calculateSMANaN(c, LONG_WINDOW))
  THEN "SELL" ELSE "HOLD"

\* ------------------------------------------------------------ signal handlers
TypeErr == Err("Cannot read properties of undefined", "", 0)

\* getConfig (src/api/send.js:336): the first missing variable throws.
getConfig(e) ==
  IF Falsy(e.finnhubKey) THEN Err("FINNHUB_API_KEY is required", "", 0)
  ELSE IF Falsy(e.telegramToken) THEN Err("TELEGRAM_BOT_TOKEN is required", "", 0)
  ELSE IF Falsy(e.chatId) THEN Err("TELEGRAM_CHAT_ID is required", "", 0)
  ELSE NoErr

\* validateConfig (src/unnamed/part_001:5): trims, then also checks the
\* format of the key.
validateConfig(e) ==
  IF Falsy(Trim(e.finnhubKey)) THEN Err("Finnhub API key is required", "", 0)
  ELSE IF Falsy(Trim(e.telegramToken))
    THEN Err("Telegram bot token is required", "", 0)
  ELSE IF Falsy(Trim(e.chatId)) THEN Err("Telegram chat ID is required", "", 0)
  ELSE IF ~KeyFormatOk(Trim(e.finnhubKey))
    THEN Err("Invalid Finnhub API key format", "", 0)
  ELSE NoErr

\* The catch block of a signal handler: "signal" first tries to send the
\* error to the chat, the others answer at once.
SignalCatch(v, e, clock, rec, er) ==
  IF v = "signal"
  THEN StartAlert(e, [rec EXCEPT !.err = er], "catch")
  ELSE Respond([rec EXCEPT !.err = er], 500,
               SignalFailBody(v, e.nodeEnv, er, clock))

\* A signal handler from its entry to its first await or its response.
SignalBegin(v, e, clock, m) ==
  LET base == [Fresh EXCEPT !.method = m]
      cfg == IF v = "retry" THEN getConfig(e)
             ELSE IF v = "conntest" THEN validateConfig(e)
             ELSE NoErr
  IN IF cfg # NoErr THEN SignalCatch(v, e, clock, base, cfg)
     ELSE IF v = "conntest"
       THEN [base EXCEPT !.pc = "testing", !.newsCalls = 1]
     ELSE [base EXCEPT !.pc = "fetching", !.quoteCalls = 1]

\* testConnection (src/unnamed/part_001:62) has returned.
SignalAfterTest(v, e, clock, rec, out) ==
  IF ~out.ok
  THEN SignalCatch(v, e, clock, rec,
                   Err("API connection failed: " \o out.err.message, "", 0))
  ELSE [rec EXCEPT !.pc = "fetching", !.quoteCalls = rec.quoteCalls + 1]

\* The error the candle request rejects with, NoErr when it resolves.
CandleReject(v, out) ==
  IF ~out.ok
  THEN IF v = "signal" THEN Err("Failed to fetch market data", "", 0)
       ELSE IF v = "retry"
       THEN Err("Market data unavailable: Finnhub API failed: "
                \o out.err.message, "", 0)
       ELSE Err("Finnhub API error: " \o out.err.message, "", 0)
  ELSE IF out.candles.s # "ok"
  THEN IF v = "retry"
       THEN Err("Market data unavailable: Finnhub data error: Unknown error",
                "", 0)
       ELSE Err("Invalid market data received", "", 0)
  ELSE IF v # "signal" /\ (~out.candles.hasC \/ out.candles.c = <<>>)
  THEN IF v = "retry"
       THEN Err("Market data unavailable: No closing prices received", "", 0)
       ELSE Err("No closing prices available", "", 0)
  ELSE NoErr

\* A signal handler from the return of stockCandles to its next await or
\* its response.
SignalAfterFetch(v, e, clock, rec, out) ==
  LET rej == CandleReject(v, out)
      c == out.candles.c
  IN IF rej # NoErr THEN SignalCatch(v, e, clock, rec, rej)
     ELSE IF ~out.candles.hasC \/ c = <<>>
       THEN SignalCatch(v, e, clock, rec, TypeErr)
     ELSE [rec EXCEPT
             !.pc = "sending",
             !.signal = IF v = "signal" THEN generateSignal(out.candles)
                        ELSE IF v = "retry" THEN RetrySignal(c)
                        ELSE ConnTestSignal(c),
             !.price = Num(c[Len(c)]),
             !.attempts = 1,
             !.sendCalls = rec.sendCalls + 1]

\* Variant of BackoffDelay that waits the same time after every attempt.
BackoffDelayFlat(attempts) == BACKOFF_UNIT

\* The delay TelegramService.sendMessage waits after a failed attempt.
BackoffDelay(attempts) == BACKOFF_UNIT * attempts

\* Variant of SignalAfterSend whose loop ends quietly after the last
\* failed attempt, so the handler goes on as if the message had been sent.
SignalAfterSendSwallow(v, e, clock, rec, out) ==
  IF out.ok
  THEN Respond(rec, 200, SignalSuccess(v, rec.signal, rec.price, clock))
  ELSE IF v # "retry" THEN SignalCatch(v, e, clock, rec, out.err)
  ELSE IF rec.attempts = maxRetries
  THEN Respond(rec, 200, SignalSuccess(v, rec.signal, rec.price, clock))
  ELSE [rec EXCEPT !.pc = "backoff",
                   !.delays = Append(rec.delays, BackoffDelay(rec.attempts))]

\* Variant of SignalAfterSend whose loop lacks the return after a successful
\* attempt: it goes round again until the attempts are used up.
SignalAfterSendNoReturn(v, e, clock, rec, out) ==
  IF out.ok /\ v = "retry" /\ rec.attempts < maxRetries
  THEN [rec EXCEPT !.attempts = rec.attempts + 1,
                   !.sendCalls = rec.sendCalls + 1]
  ELSE IF out.ok
  THEN Respond(rec, 200, SignalSuccess(v, rec.signal, rec.price, clock))
  ELSE IF v # "retry" THEN SignalCatch(v, e, clock, rec, out.err)
  ELSE IF rec.attempts = maxRetries
  THEN SignalCatch(v, e, clock, rec,
                   Err("Failed after 3 attempts: " \o out.err.message, "", 0))
  ELSE [rec EXCEPT !.pc = "backoff",
                   !.delays = Append(rec.delays, BackoffDelay(rec.attempts))]

\* A signal handler from the return of bot.sendMessage to its response, or
\* (TelegramService.sendMessage, src/api/send.js:399) to the wait before the
\* next attempt.
SignalAfterSend(v, e, clock, rec, out) ==
  IF out.ok
  THEN Respond(rec, 200, SignalSuccess(v, rec.signal, rec.price, clock))
  ELSE IF v # "retry" THEN SignalCatch(v, e, clock, rec, out.err)
  ELSE IF rec.attempts = maxRetries
  THEN SignalCatch(v, e, clock, rec,
                   Err("Failed after 3 attempts: " \o out.err.message, "", 0))
  ELSE [rec EXCEPT !.pc = "backoff",
                   !.delays = Append(rec.delays, BackoffDelay(rec.attempts))]

\* The timer of the backoff fired: the loop makes its next attempt.
SignalAfterBackoff(rec) ==
  [rec EXCEPT !.pc = "sending", !.attempts = rec.attempts + 1,
              !.sendCalls = rec.sendCalls + 1]

\* The inner try of "signal" has sent, or failed to send, the error.
SignalAfterAlert(v, e, clock, rec, result) ==
  Respond([rec EXCEPT !.alertOk = AlertResult(result)],
          500, SignalFailBody(v, e.nodeEnv, rec.err, clock))

\* ------------------------------------------------------------ behaviour
\* The signal module of src/api/send.js:201 throws while loading when a
\* variable is missing, so it never serves with an incomplete environment.
ModuleLoads(v, e) == v = "signal" => ~ConfigMissing(e)

EmptyCache == [k \in {} |-> CacheEntry(0, NoBody)]

\* Variant of CacheSet that clears the map before it stores the entry.
CacheSetOnly(cache, key, entry) == [k \in {key} |-> entry]

\* Variant of CacheSet that keeps an entry the key already has.
CacheSetIfAbsent(cache, key, entry) ==
  [k \in DOMAIN cache \cup {key} |-> IF k \in DOMAIN cache THEN cache[k] ELSE entry]

\* Map.prototype.set
CacheSet(cache, key, entry) ==
  [k \in DOMAIN cache \cup {key} |-> IF k = key THEN entry ELSE cache[k]]

Init ==
  /\ variant \in Variants
  /\ env \in [finnhubKey : KeyValues(variant), telegramToken : CredValues,
              chatId : CredValues, nodeEnv : NodeEnvs]
  /\ ModuleLoads(variant, env)
  /\ now = 0
  /\ ticks = 0
  /\ requestCache = EmptyCache
  /\ req = [r \in Req |-> Fresh]

\* Only the caching handlers share state (the cache) between invocations;
\* an invocation of another handler runs alone.
Slots(v) == IF v \in CachingVariants THEN Req ELSE {1}

\* Invocations take the slots in order.
CanStart(r) ==
  /\ r \in Slots(variant)
  /\ req[r].pc = "idle"
  /\ \A p \in Req : p < r => req[p].pc # "idle"

\* What the cache holds for a symbol when a request arrives (observation,
\* kept with the invocation): no entry, a live one or an expired one.
EntrySeen(cache, clock, sym) ==
  IF sym.k # "string" \/ ToUpperCase(sym.s) \notin DOMAIN cache THEN "none"
  ELSE IF clock - cache[ToUpperCase(sym.s)].timestamp < CACHE_TTL THEN "live"
  ELSE "expired"

\* A request arrives at a quote handler.
Start(r) ==
  /\ variant \in QuoteVariants
  /\ CanStart(r)
  /\ \E m \in Methods, sym \in InputSymbols :
       req' = [req EXCEPT ![r] =
                 [QuoteBegin(variant, env, requestCache, now, m, sym)
                    EXCEPT !.seen = EntrySeen(requestCache, now, sym)]]
  /\ UNCHANGED <<variant, env, now, ticks, requestCache>>

\* axios.get of the quote settles.
FetchReturn(r) ==
  /\ variant \in QuoteVariants
  /\ req[r].pc = "fetching"
  /\ \E out \in FetchOutcomes :
       req' = [req EXCEPT ![r] = QuoteAfterFetch(variant, env, now, req[r], out)]
  /\ UNCHANGED <<variant, env, now, ticks, requestCache>>

\* axios.post of the stock update settles; a success is cached by the
\* caching handlers before the response goes out.
SendReturn(r) ==
  /\ variant \in QuoteVariants
  /\ req[r].pc = "sending"
  /\ \E out \in SendOutcomes :
       LET next == [QuoteAfterSend(variant, env, now, req[r], out)
                      EXCEPT !.sendFailures =
                               req[r].sendFailures + (IF out.ok THEN 0 ELSE 1)]
       IN /\ req' = [req EXCEPT ![r] = next]
          /\ requestCache' =
               IF next.cacheWrote
               THEN CacheSet(requestCache, req[r].key, CacheEntry(now, next.body))
               ELSE requestCache
  /\ UNCHANGED <<variant, env, now, ticks>>

\* The post of an error alert settles.
AlertReturn(r) ==
  /\ variant \in QuoteVariants
  /\ req[r].pc = "alerting"
  /\ \E result \in AlertOutcomes :
       req' = [req EXCEPT ![r] = QuoteAfterAlert(variant, env, req[r], result)]
  /\ UNCHANGED <<variant, env, now, ticks, requestCache>>

\* A request arrives at a signal handler.
SignalStart(r) ==
  /\ variant \in SignalVariants
  /\ CanStart(r)
  /\ \E m \in Methods :
       req' = [req EXCEPT ![r] = SignalBegin(variant, env, now, m)]
  /\ UNCHANGED <<variant, env, now, ticks, requestCache>>

\* generalNews of the connection test calls back.
TestReturn(r) ==
  /\ req[r].pc = "testing"
  /\ \E out \in BotOutcomes :
       req' = [req EXCEPT ![r] = SignalAfterTest(variant, env, now, req[r], out)]
  /\ UNCHANGED <<variant, env, now, ticks, requestCache>>

\* stockCandles calls back (the closing prices it delivered are kept with
\* the invocation, as an observation).
CandleReturn(r) ==
  /\ variant \in SignalVariants
  /\ req[r].pc = "fetching"
  /\ \E out \in CandleOutcomes :
       req' = [req EXCEPT ![r] =
                 [SignalAfterFetch(variant, env, now, req[r], out)
                    EXCEPT !.closes = out.candles.c]]
  /\ UNCHANGED <<variant, env, now, ticks, requestCache>>

\* bot.sendMessage of the signal settles.
BotReturn(r) ==
  /\ variant \in SignalVariants
  /\ req[r].pc = "sending"
  /\ \E out \in BotOutcomes :
       req' = [req EXCEPT ![r] =
                 [SignalAfterSend(variant, env, now, req[r], out)
                    EXCEPT !.sendFailures =
                             req[r].sendFailures + (IF out.ok THEN 0 ELSE 1)]]
  /\ UNCHANGED <<variant, env, now, ticks, requestCache>>

\* The setTimeout of the backoff fires.
BackoffDone(r) ==
  /\ req[r].pc = "backoff"
  /\ req' = [req EXCEPT ![r] = SignalAfterBackoff(req[r])]
  /\ UNCHANGED <<variant, env, now, ticks, requestCache>>

\* bot.sendMessage of the error notification settles.
SignalAlertReturn(r) ==
  /\ variant \in SignalVariants
  /\ req[r].pc = "alerting"
  /\ \E result \in AlertOutcomes :
       req' = [req EXCEPT ![r] = SignalAfterAlert(variant, env, now, req[r], result)]
  /\ UNCHANGED <<variant, env, now, ticks, requestCache>>

\* Time passes: by a millisecond, or by one short of the cache's lifetime.
TickSteps == {1, CACHE_TTL - 1}

Tick ==
  /\ ticks < MaxTicks
  /\ \E d \in TickSteps : now' = now + d
  /\ ticks' = ticks + 1
  /\ UNCHANGED <<variant, env, requestCache, req>>

Next ==
  \/ \E r \in Req : Start(r)
  \/ \E r \in Req : FetchReturn(r)
  \/ \E r \in Req : SendReturn(r)
  \/ \E r \in Req : AlertReturn(r)
  \/ \E r \in Req : SignalStart(r)
  \/ \E r \in Req : TestReturn(r)
  \/ \E r \in Req : CandleReturn(r)
  \/ \E r \in Req : BotReturn(r)
  \/ \E r \in Req : BackoffDone(r)
  \/ \E r \in Req : SignalAlertReturn(r)
  \/ Tick

Spec == Init /\ [][Next]_vars

\* Every pending outbound call settles and every timer fires.  axios.get
\* carries timeout 5000 and the axios.post calls timeout 3000; the calls made
\* through the finnhub client and the bot client are given no timeout by the
\* code and are taken to settle all the same.
FairSpec ==
  /\ Spec
  /\ \A r \in Req : /\ WF_vars(FetchReturn(r))
                    /\ WF_vars(SendReturn(r))
                    /\ WF_vars(AlertReturn(r))
                    /\ WF_vars(TestReturn(r))
                    /\ WF_vars(CandleReturn(r))
                    /\ WF_vars(BotReturn(r))
                    /\ WF_vars(BackoffDone(r))
                    /\ WF_vars(SignalAlertReturn(r))

\* ------------------------------------------------------------ formatting runs
\* The quote handlers applied to a wider set of quotes: every field of the
\* provider's object a number (zero among them), null or absent.
FormatQuotes ==
  { Quote(c, h, l, o, pc, dp, t) :
      c \in {Num(1501234), Num(0), Null, Undef},
      h \in {Num(1510000), Null, Undef},
      l \in {Num(1475000), Undef},
      o \in {Num(1490000), Null},
      pc \in {Num(1480000), Num(1501234), Num(0), Null, Undef},
      dp \in {Num(15000), Num(-10056), Num(0), Null, Undef},
      t \in {Num(1700000000), Undef} }

\* One invocation, with the environment complete.
FormatInit ==
  /\ variant \in QuoteVariants
  /\ env \in [finnhubKey : {"c0key"}, telegramToken : {"set"},
              chatId : {"set"}, nodeEnv : NodeEnvs]
  /\ now = 0
  /\ ticks = 0
  /\ requestCache = EmptyCache
  /\ req = [r \in Req |-> Fresh]

\* axios.get resolves with one of these quotes.
FormatFetchReturn ==
  /\ req[1].pc = "fetching"
  /\ \E q \in FormatQuotes :
       req' = [req EXCEPT ![1] =
                 QuoteAfterFetch(variant, env, now, req[1], Ok(DataObj(q)))]
  /\ UNCHANGED <<variant, env, now, ticks, requestCache>>

FormatNext ==
  \/ Start(1)
  \/ FormatFetchReturn
  \/ SendReturn(1)
  \/ AlertReturn(1)

FormatSpec == FormatInit /\ [][FormatNext]_vars

\* ------------------------------------------------------------ signal runs
\* The handler of generateSignal applied to a wider set of series: 3 to 24
\* closing prices that end flat, with a dip or with a jump, and a series of
\* zeros.
SignalSeries ==
  { Flat(n, 1000000) \o <<a, b>> :
      n \in {1, 3, 17, 18, 19, 22},
      a \in {100000, 1000000, 2000000},
      b \in {100000, 1000000, 2000000} }
  \cup {SeriesBuy, SeriesSell, Flat(21, 0)}

\* One invocation of the handler of src/api/send.js:254.
SignalInit ==
  /\ variant = "signal"
  /\ env \in [finnhubKey : {"c0key"}, telegramToken : {"set"},
              chatId : {"set"}, nodeEnv : NodeEnvs]
  /\ now = 0
  /\ ticks = 0
  /\ requestCache = EmptyCache
  /\ req = [r \in Req |-> Fresh]

\* stockCandles calls back with status ok and one of these series.
SignalCandleReturn ==
  /\ req[1].pc = "fetching"
  /\ \E c \in SignalSeries :
       req' = [req EXCEPT ![1] =
                 [SignalAfterFetch(variant, env, now, req[1],
                                   CandleOk(Candles("ok", TRUE, c)))
                    EXCEPT !.closes = c]]
  /\ UNCHANGED <<variant, env, now, ticks, requestCache>>

SignalNext ==
  \/ SignalStart(1)
  \/ SignalCandleReturn
  \/ BotReturn(1)
  \/ SignalAlertReturn(1)

SignalSpec == SignalInit /\ [][SignalNext]_vars

\* ------------------------------------------------------------ properties
Started(r) == req[r].pc # "idle"
Finished(r) == req[r].pc = "done"

\* Every outbound call an invocation has made so far.
Outbound(r) ==
  req[r].quoteCalls + req[r].newsCalls + req[r].sendCalls + req[r].alertCalls

CredentialMissing ==
  \/ env.finnhubKey \in {"UNSET", ""}
  \/ env.telegramToken \in {"UNSET", ""}
  \/ env.chatId \in {"UNSET", ""}

\* A request a quote handler is to process: not a preflight, and the
\* environment is complete.
Processed(r) ==
  /\ variant \in QuoteVariants
  /\ Started(r)
  /\ req[r].method # "OPTIONS"
  /\ ~CredentialMissing

MatchesPattern(s) == SYMBOL_REGEX(ToUpperCase(s))

\* C1 as written: a request whose symbol is absent or does not match
\* ^[A-Z]{1,5}$ after uppercasing gets 400 and makes no outbound call of any
\* kind, error alerts included.
C1_Original ==
  \A r \in Req :
    Processed(r)
      /\ (req[r].symbol.k # "string" \/ ~MatchesPattern(req[r].symbol.s))
    => /\ Outbound(r) = 0
       /\ req[r].pc = "done"
       /\ req[r].status = 400

\* C1 as amended: a request whose symbol is absent, or is a string that does
\* not match ^[A-Z]{1,5}$ after uppercasing, gets 400, never reaches the
\* quote provider and sends no stock update; the handler without alerts
\* makes no outbound call at all, the alerting handlers make exactly one,
\* the error alert, before they respond.
C1_InvalidSymbolRejected ==
  \A r \in Req :
    Processed(r)
      /\ (req[r].symbol.k = "undefined"
          \/ (req[r].symbol.k = "string" /\ ~MatchesPattern(req[r].symbol.s)))
    => /\ req[r].quoteCalls = 0
       /\ req[r].newsCalls = 0
       /\ req[r].sendCalls = 0
       /\ req[r].alertCalls = (IF variant \in AlertingVariants THEN 1 ELSE 0)
       /\ req[r].pc \in {"alerting", "done"}
       /\ Finished(r) => req[r].status = 400 /\ req[r].body.success = "false"

C1_Witness ==
  \E r \in Req :
    /\ Processed(r)
    /\ variant = "alertcache"
    /\ req[r].symbol = SymStr(<<"A", "1">>)
    /\ Finished(r)
    /\ req[r].status = 400
    /\ req[r].alertCalls = 1

\* C2: in the caching handlers, a request that arrives while the entry of
\* its symbol (compared after uppercasing) is less than 30000 ms old is
\* answered 200 with exactly the payload that was returned to the request
\* that wrote the entry, and makes no outbound call.
C2_CachedReplay ==
  \A r \in Req :
    Processed(r) /\ variant \in CachingVariants /\ req[r].seen = "live"
    => /\ Finished(r)
       /\ req[r].status = 200
       /\ Outbound(r) = 0
       /\ \E p \in Req \ {r} :
            /\ Finished(p)
            /\ req[p].status = 200
            /\ req[p].sendCalls = 1
            /\ ToUpperCase(req[p].symbol.s) = ToUpperCase(req[r].symbol.s)
            /\ req[p].body = req[r].body

C2_Witness ==
  \E r \in Req, p \in Req :
    /\ variant = "cache"
    /\ req[r].seen = "live"
    /\ req[r].symbol = SymStr(<<"a", "a">>)
    /\ req[p].symbol = SymStr(<<"A", "A">>)
    /\ req[p].cacheWrote
    /\ Finished(r)
    /\ req[r].hitAge = CACHE_TTL - 1
    /\ req[r].body = req[p].body
    /\ req[r].body.data.symbol = <<"A", "A">>

\* C3: a response is served from the cache only from an entry younger than
\* 30000 ms; an entry of age 30000 ms or more is never served, and the
\* request goes to the quote provider as if there were no entry.
C3_ServedOnlyWhenLive ==
  \A r \in Req :
    variant \in CachingVariants /\ Started(r)
    => /\ req[r].hit => /\ req[r].seen = "live"
                        /\ req[r].hitAge >= 0
                        /\ req[r].hitAge < 30000
       /\ req[r].seen = "expired" /\ req[r].method # "OPTIONS"
            => ~req[r].hit /\ req[r].quoteCalls = 1

C3_Witness ==
  \E r \in Req :
    /\ variant \in CachingVariants
    /\ req[r].seen = "expired"
    /\ req[r].pc = "fetching"
    /\ now - requestCache[req[r].key].timestamp = CACHE_TTL

\* C4: a valid request that finds the entry of its symbol expired calls the
\* quote provider afresh, and when it succeeds the entry becomes the new
\* payload with the time of this write, later than the old one.
C4_ExpiredRefetches ==
  /\ [](\A r \in Req :
          Processed(r) /\ variant \in CachingVariants /\ req[r].seen = "expired"
          => req[r].quoteCalls = 1)
  /\ [][\A r \in Req :
          /\ variant \in CachingVariants
          /\ req[r].seen = "expired"
          /\ req[r].pc = "sending"
          /\ req'[r].pc = "done"
          /\ req'[r].status = 200
          => /\ req[r].key \in DOMAIN requestCache'
             /\ requestCache'[req[r].key].timestamp = now
             /\ requestCache'[req[r].key].timestamp
                  > requestCache[req[r].key].timestamp
             /\ requestCache'[req[r].key].data = req'[r].body
             /\ req'[r].body.data.currentPrice = req[r].dat.q.c
             /\ req'[r].body.data.percentChange = req[r].dat.q.dp]_vars

C4_Witness ==
  \E r \in Req, p \in Req :
    /\ variant \in CachingVariants
    /\ req[r].seen = "expired"
    /\ Finished(r)
    /\ req[r].status = 200
    /\ req[r].cacheWrote
    /\ req[p].cacheWrote
    /\ req[p].body # req[r].body
    /\ requestCache[req[r].key].data = req[r].body
    /\ requestCache[req[r].key].timestamp >= CACHE_TTL

\* C5 as written: a quote with current price 0 and percent change null
\* gets 404 and the messaging provider is never called, neither for the
\* stock update nor for an error alert.
C5_Original ==
  \A r \in Req :
    /\ variant \in QuoteVariants
    /\ req[r].fetched
    /\ req[r].dat.t = "object"
    /\ req[r].dat.q.c = Num(0)
    /\ req[r].dat.q.dp = Null
    => /\ req[r].sendCalls = 0
       /\ req[r].alertCalls = 0
       /\ Finished(r)
       /\ req[r].status = 404

\* C5 as amended: such a quote gets 404, no stock update is sent and nothing
\* is cached; the handler without alerts never calls the messaging
\* provider, the alerting handlers call it exactly once, for the error
\* alert.
C5_NoDataIs404 ==
  \A r \in Req :
    /\ variant \in QuoteVariants
    /\ req[r].fetched
    /\ req[r].dat.t = "object"
    /\ req[r].dat.q.c = Num(0)
    /\ req[r].dat.q.dp = Null
    => /\ req[r].sendCalls = 0
       /\ ~req[r].cacheWrote
       /\ req[r].alertCalls = (IF variant \in AlertingVariants THEN 1 ELSE 0)
       /\ req[r].pc \in {"alerting", "done"}
       /\ Finished(r) => req[r].status = 404 /\ req[r].body.success = "false"

C5_Witness ==
  \E r \in Req :
    /\ variant = "alert"
    /\ req[r].dat = DataObj(QNotFound)
    /\ Finished(r)
    /\ req[r].status = 404
    /\ req[r].alertCalls = 1
    /\ req[r].sendCalls = 0

\* C6: in the retrying handler, when every attempt of the messaging call
\* fails, sendMessage has made exactly 3 attempts when it throws, and the
\* handler answers 500, never a success.
C6_RetriesExhausted ==
  variant = "retry" =>
    \A r \in Req :
      /\ req[r].sendCalls <= 3
      /\ req[r].pc = "backoff" => req[r].sendCalls < 3
      /\ req[r].sendCalls > 0 /\ req[r].sendFailures = req[r].sendCalls
         => /\ req[r].status # 200
            /\ req[r].pc \in {"backoff", "done"}
            /\ Finished(r) => /\ req[r].sendCalls = 3
                              /\ req[r].status = 500
                              /\ req[r].body.message = "Trading signal failed"
                              /\ req[r].body.error.message
                                   \in {"Failed after 3 attempts: " \o e.message :
                                          e \in SignalErrors}

C6_Witness ==
  \E r \in Req :
    /\ variant = "retry"
    /\ Finished(r)
    /\ req[r].sendFailures = 3
    /\ req[r].sendCalls = 3
    /\ req[r].status = 500
    /\ req[r].delays = <<1000, 2000>>

C8_MissingConfigIs500 ==
  \A r \in Req :
    /\ Started(r)
    /\ CredentialMissing
    /\ variant \in QuoteVariants => req[r].method # "OPTIONS"
    => /\ req[r].quoteCalls = 0
       /\ req[r].newsCalls = 0
       /\ req[r].sendCalls = 0
       /\ req[r].attempts = 0
       /\ ~req[r].cacheRead
       /\ req[r].pc \in {"alerting", "done"}
       /\ Finished(r) => req[r].status = 500

C8_Witness ==
  \E r \in Req :
    /\ variant = "cache"
    /\ env.chatId = ""
    /\ env.finnhubKey = "c0key"
    /\ req[r].method = "GET"
    /\ req[r].symbol = SymArray
    /\ Finished(r)
    /\ req[r].status = 500

\* What the handler of invocation r does when its pending alert settles
\* with outcome o.
AfterAlert(r, o) ==
  IF variant \in QuoteVariants
  THEN QuoteAfterAlert(variant, env, req[r], o)
  ELSE SignalAfterAlert(variant, env, now, req[r], o)

\* C9: the outcome of an error alert never shows in the response. Whatever
\* step an invocation takes out of its alert, its status, body and further
\* course are those it would have had with any other outcome of the alert
\* (sent, failed, timed out), and a failed alert never ends the invocation
\* with an escaped exception.
C9_AlertNeverAffectsResponse ==
  /\ [](\A r \in Req : req[r].alertOk = "false" => req[r].pc # "crashed")
  /\ [][\A r \in Req :
          req[r].pc = "alerting" /\ req'[r] # req[r]
          => \A o \in AlertOutcomes :
               /\ req'[r].pc = AfterAlert(r, o).pc
               /\ req'[r].pc # "crashed"
               /\ req'[r].status = AfterAlert(r, o).status
               /\ req'[r].body = AfterAlert(r, o).body
               /\ req'[r].err = AfterAlert(r, o).err
               /\ req'[r].alertCalls = AfterAlert(r, o).alertCalls]_vars

C9_Witness ==
  \E r \in Req :
    /\ variant = "alert"
    /\ Finished(r)
    /\ req[r].alertOk = "false"
    /\ req[r].status = 504
    /\ req[r].body = TimeoutBody

\* A quote object that lacks one of its numeric price fields.
LacksPrices(q) == \E f \in {"c", "h", "l", "o", "pc"} : q[f].k # "num"

\* C10 as written: a provider response that is not an object, or that
\* lacks the numeric price fields, ends in a 500/502 failure; no stock
\* update is sent and nothing is cached.
C10_Original ==
  \A r \in Req :
    /\ variant \in QuoteVariants
    /\ req[r].fetched
    /\ (req[r].dat.t # "object" \/ LacksPrices(req[r].dat.q))
    => /\ req[r].sendCalls = 0
       /\ ~req[r].cacheWrote
       /\ Finished(r) => req[r].status \in {500, 502}

\* C10 as amended: a provider response that is not an object (null, text)
\* ends in a failure, 502 in the alerting handler without a cache and 500 in
\* the two others; no stock update is sent and nothing is cached.
C10_NonObjectIsFailure ==
  \A r \in Req :
    /\ variant \in QuoteVariants
    /\ req[r].fetched
    /\ req[r].dat.t # "object"
    => /\ req[r].sendCalls = 0
       /\ ~req[r].cacheWrote
       /\ req[r].pc \in {"alerting", "done"}
       /\ Finished(r) => /\ req[r].status = (IF variant = "alert" THEN 502 ELSE 500)
                         /\ req[r].body.success = "false"

C10_Witness ==
  \E r \in Req :
    /\ variant = "alertcache"
    /\ req[r].fetched
    /\ req[r].dat = DataText
    /\ Finished(r)
    /\ req[r].status = 500
    /\ req[r].sendCalls = 0
    /\ req[r].key \notin DOMAIN requestCache

\* The stock update of invocation r was accepted by the messaging provider.
Accepted(r) ==
  /\ req[r].sendCalls > req[r].sendFailures
  /\ req[r].pc # "sending"

\* C11: a request that is not served from the cache gets a success (200 with
\* a body) only if the messaging provider accepted the stock update this
\* same invocation sent; when the messaging call fails, a quote handler
\* answers success=false with a status other than 200, and no handler
\* answers 200.
C11_SuccessOnlyAfterDelivery ==
  \A r \in Req :
    /\ Finished(r) /\ ~req[r].hit /\ req[r].status = 200 /\ ~req[r].body.empty
       => /\ Accepted(r)
          /\ req[r].sendCalls = req[r].sendFailures + 1
          /\ req[r].quoteCalls = 1
    /\ Finished(r) /\ req[r].body.success = "true" /\ ~req[r].hit
       => req[r].status = 200 /\ Accepted(r)
    /\ variant \in QuoteVariants /\ req[r].sendFailures > 0
       => /\ req[r].pc \in {"alerting", "done"}
          /\ ~req[r].cacheWrote
          /\ Finished(r) => /\ req[r].body.success = "false"
                            /\ req[r].status \in {429, 500, 504}
    /\ variant \in SignalVariants /\ Finished(r) /\ ~Accepted(r)
       => req[r].status = 500

C11_Witness ==
  \E r \in Req :
    /\ variant = "cache"
    /\ Finished(r)
    /\ req[r].sendCalls = 1
    /\ req[r].sendFailures = 1
    /\ req[r].err = ErrNetwork
    /\ req[r].status = 500
    /\ req[r].body.success = "false"
    /\ req[r].key \notin DOMAIN requestCache

\* The failure an invocation of a quote handler ended its fetch / send phase
\* with: a rejected call, or a response that is not an object.
FetchRejected(r) == req[r].quoteCalls = 1 /\ ~req[r].fetched /\ req[r].err # NoErr
SendRejected(r) == req[r].sendFailures > 0
Malformed(r) == req[r].fetched /\ req[r].dat.t # "object"

C13_Original ==
  \A r \in Req :
    Finished(r) /\ req[r].status # 200
    => /\ req[r].body.error.present => env.nodeEnv = "development"
       /\ env.nodeEnv # "development" => req[r].body.error = NoDetail


\* The quote of invocation r passed the validity check and was formatted.
Formatted(r) ==
  /\ variant \in QuoteVariants
  /\ req[r].fetched
  /\ req[r].dat.t = "object"
  /\ ~(req[r].dat.q.c = Num(0) /\ req[r].dat.q.dp = Null)

\* Rounding to 2 decimals of a value scaled by 10^4, in hundredths.
Round2(v) == IF v >= 0 THEN (v + 50) \div 100 ELSE -((50 - v) \div 100)

\* C14 as written: for a valid quote whose current price, previous close and
\* percent change are numbers, the change line shows the up indicator and
\* '+' exactly when the percent change is >= 0 (else the down indicator and
\* no sign), the delta current - previous close and the percent change, both
\* rounded to 2 decimals; 150.1234, 148.00 and 1.5 give 150.12, 2.12 and
\* +1.50%.
C14_Original ==
  \A r \in Req :
    LET q == req[r].dat.q
        m == req[r].sent
    IN Formatted(r) /\ q.c.k = "num" /\ q.pc.k = "num" /\ q.dp.k = "num"
       => /\ req[r].sendCalls = 1
          /\ (m.dir = "up") <=> (q.dp.v >= 0)
          /\ (m.dir = "down") <=> (q.dp.v < 0)
          /\ (m.sign = "+") <=> (q.dp.v >= 0)
          /\ (m.sign = "") <=> (q.dp.v < 0)
          /\ m.change = Fixed(Round2(q.c.v - q.pc.v))
          /\ m.pct = Fixed(Round2(q.dp.v))
          /\ q.c = Num(1501234) /\ q.pc = Num(1480000) /\ q.dp = Num(15000)
             => /\ m.price = Fixed(15012)
                /\ m.change = Fixed(212)
                /\ m.pct = Fixed(150)
                /\ m.dir = "up"
                /\ m.sign = "+"

\* A numeric field of the quote that is null or absent.
Missing(x) == x.k \in {"null", "undef"}

C16_StepOrder ==
  /\ [](\A r \in Req :
          variant \in QuoteVariants /\ Started(r) /\ req[r].method # "OPTIONS"
          => /\ CredentialMissing
                => /\ req[r].pc \in {"alerting", "done"}
                   /\ Finished(r) => req[r].status = 500
             /\ req[r].cacheRead \/ req[r].hit \/ req[r].quoteCalls > 0
                => /\ ~CredentialMissing
                   /\ req[r].symbol.k = "string"
                   /\ MatchesPattern(req[r].symbol.s)
             /\ req[r].quoteCalls > 0
                => /\ ~req[r].hit
                   /\ req[r].seen # "live"
                   /\ req[r].quoteCalls = 1
                   /\ variant \in CachingVariants => req[r].cacheRead
             /\ req[r].hit => req[r].quoteCalls = 0 /\ req[r].sendCalls = 0
             /\ req[r].sendCalls > 0
                => /\ req[r].quoteCalls = 1
                   /\ req[r].fetched
                   /\ req[r].dat.t = "object"
                   /\ ~(req[r].dat.q.c = Num(0) /\ req[r].dat.q.dp = Null)
                   /\ req[r].sent # NoMsg
                   /\ req[r].sent.symbol = ToUpperCase(req[r].symbol.s)
             /\ req[r].cacheWrote => Accepted(r)
             /\ Finished(r) /\ req[r].status = 200 /\ ~req[r].hit => Accepted(r))
  /\ [][\A r \in Req :
          variant \in QuoteVariants
          => /\ req'[r].pc = "fetching" /\ req[r].pc # "fetching"
                => req[r].pc = "idle"
             /\ req'[r].pc = "sending" /\ req[r].pc # "sending"
                => req[r].pc = "fetching"
             /\ req[r].pc = "sending" /\ req'[r].pc # "sending"
                => req'[r].pc \in {"done", "alerting"}
             /\ req[r].pc = "done" => req'[r] = req[r]]_vars

C16_Witness ==
  \E r \in Req :
    /\ variant = "alertcache"
    /\ req[r].method = "GET"
    /\ Finished(r)
    /\ req[r].status = 200
    /\ ~req[r].hit
    /\ req[r].cacheRead
    /\ req[r].quoteCalls = 1
    /\ req[r].dat = DataObj(QDown)
    /\ req[r].sendCalls = 1
    /\ req[r].cacheWrote
    /\ req[r].sent.dir = "down"


\* C17 as written: every invocation of every handler eventually answers its
\* caller, whatever the request (an absent or non-string symbol included) and
\* whatever the outbound calls do.
C17_Original == \A r \in Req : Started(r) ~> Finished(r)


\* C18: in the retrying handler sendMessage makes at most 3 attempts and none
\* after an attempt that succeeded: when attempt k (1 <= k <= 3) is the first
\* to succeed, the call returns after exactly k attempts and the handler
\* answers 200.
C18_StopsAtFirstSuccess ==
  /\ [](variant = "retry" =>
          \A r \in Req :
            /\ req[r].attempts <= 3
            /\ req[r].sendCalls = req[r].attempts
            /\ req[r].sendCalls <= req[r].sendFailures + 1
            /\ Accepted(r)
               => /\ Finished(r)
                  /\ req[r].status = 200
                  /\ req[r].sendCalls = req[r].sendFailures + 1
                  /\ req[r].sendCalls \in 1..3
            /\ Finished(r) /\ req[r].status = 200 => Accepted(r))
  /\ [][variant = "retry" =>
          \A r \in Req :
            /\ req[r].pc = "sending" /\ req'[r] # req[r]
                 /\ req'[r].sendFailures = req[r].sendFailures
               => /\ req'[r].pc = "done"
                  /\ req'[r].status = 200
                  /\ req'[r].sendCalls = req[r].sendCalls
                  /\ req'[r].delays = req[r].delays
            /\ req[r].pc = "done" => req'[r] = req[r]]_vars

C18_Witness ==
  \E r \in Req :
    /\ variant = "retry"
    /\ Finished(r)
    /\ req[r].status = 200
    /\ req[r].sendFailures = 2
    /\ req[r].sendCalls = 3
    /\ req[r].attempts = 3
    /\ req[r].signal = "BUY"

\* C19: in the retrying handler the wait after the k-th failed attempt is
\* k x 1000 ms for k = 1 and k = 2 and there is none after the 3rd, so the
\* waits before the final failure are 1000 then 2000 ms, strictly increasing
\* and 3000 ms in all.
C19_LinearBackoff ==
  variant = "retry" =>
    \A r \in Req :
      LET d == req[r].delays
      IN /\ Len(d) <= 2
         /\ \A k \in 1..Len(d) : d[k] = k * 1000
         /\ \A k \in 1..(Len(d) - 1) : d[k] < d[k + 1]
         /\ Len(d) = (IF req[r].sendFailures < 3 THEN req[r].sendFailures ELSE 2)
         /\ req[r].pc = "backoff" => Len(d) = req[r].attempts /\ req[r].attempts < 3
         /\ req[r].sendFailures = 3
            => /\ Finished(r)
               /\ req[r].status = 500
               /\ d = <<1000, 2000>>
               /\ SumSeq(d) = 3000

C19_Witness ==
  \E r \in Req :
    /\ variant = "retry"
    /\ req[r].sendFailures = 3
    /\ Finished(r)
    /\ Len(req[r].delays) = 2
    /\ SumSeq(req[r].delays) = 3000
    /\ req[r].err.message = "Failed after 3 attempts: getaddrinfo ENOTFOUND"


\* A pending market-data fetch (quote or candles) of invocation r.
Fetching(r) == req[r].pc = "fetching"

\* C20: in every handler the market-data fetch (quote or candles) is made at
\* most once per invocation, whatever its outcome: after a rejected fetch, a
\* rate limit, a timeout or malformed data there is no second fetch, and
\* only the messaging call of the retrying handler is ever repeated.
C20_FetchAtMostOnce ==
  /\ [](\A r \in Req :
          /\ req[r].quoteCalls <= 1
          /\ req[r].sendCalls > 1 => variant = "retry"
          /\ req[r].newsCalls <= 1
          /\ req[r].quoteCalls = 1 /\ ~Fetching(r) /\ req[r].sendCalls = 0
             => req[r].pc \in {"alerting", "done"})
  /\ [][\A r \in Req :
          /\ req'[r].quoteCalls > req[r].quoteCalls
             => req[r].quoteCalls = 0 /\ req[r].pc \in {"idle", "testing"}
          /\ Fetching(r) /\ req'[r] # req[r]
             => ~Fetching(r)' /\ req'[r].quoteCalls = 1]_vars

C20_Witness ==
  \E r \in Req :
    /\ variant = "alertcache"
    /\ Finished(r)
    /\ FetchRejected(r)
    /\ req[r].err = ErrTimeout
    /\ req[r].quoteCalls = 1
    /\ req[r].sendCalls = 0
    /\ req[r].status = 504


\* Invocation r has answered with a failure.
EndedInFailure(r) == Finished(r) /\ req[r].status \in {400, 404, 429, 500, 502, 504}

\* C21: in the caching handlers every cache entry holds a success payload,
\* success=true with the raw quote fields of a request whose message the
\* messaging provider accepted before the entry was written; a request that
\* ends in a failure neither creates nor changes an entry.
C21_OnlySuccessCached ==
  /\ [](variant \in CachingVariants =>
          /\ \A k \in DOMAIN requestCache :
               /\ requestCache[k].data.success = "true"
               /\ requestCache[k].data.data.symbol = k
               /\ requestCache[k].timestamp <= now
               /\ \E p \in Req :
                    /\ Finished(p)
                    /\ req[p].status = 200
                    /\ req[p].cacheWrote
                    /\ Accepted(p)
                    /\ req[p].key = k
                    /\ requestCache[k].data = req[p].body
                    /\ requestCache[k].data.data.currentPrice = req[p].dat.q.c
                    /\ requestCache[k].data.data.percentChange = req[p].dat.q.dp
                    /\ requestCache[k].data.data.timestamp = req[p].dat.q.t
          /\ \A r \in Req : EndedInFailure(r) => ~req[r].cacheWrote)
  /\ [][\A r \in Req :
          ~EndedInFailure(r) /\ EndedInFailure(r)' => requestCache' = requestCache]_vars
  /\ [][requestCache' # requestCache
        => \E r \in Req : /\ req[r].pc = "sending"
                          /\ req'[r].pc = "done"
                          /\ req'[r].status = 200
                          /\ req'[r].sendFailures = 0]_vars

C21_Witness ==
  \E r \in Req, p \in Req :
    /\ variant = "cache"
    /\ req[p].cacheWrote
    /\ req[r].key = req[p].key
    /\ req[r].seen = "expired"
    /\ EndedInFailure(r)
    /\ req[r].sendFailures = 1
    /\ req[r].status = 504
    /\ requestCache[req[r].key].data = req[p].body
    /\ requestCache[req[r].key].timestamp = 0

\* C22: no step removes a key from the cache.  A step changes at most the
\* entry of the symbol of the request that takes it, and only when that
\* request succeeds; the arrival of a request, a cache hit among them, and
\* the passing of time leave the whole cache as it is, so an expired entry
\* stays until a later success for its symbol overwrites it.
C22_CacheNeverShrinks ==
  /\ [][/\ DOMAIN requestCache \subseteq DOMAIN requestCache'
        /\ \A k \in DOMAIN requestCache' :
             (k \notin DOMAIN requestCache \/ requestCache'[k] # requestCache[k])
             => \E r \in Req : /\ req[r].key = k
                               /\ req[r].pc = "sending"
                               /\ req'[r].status = 200
        /\ (\E r \in Req : req[r].pc = "idle" /\ req'[r].pc # "idle")
             => requestCache' = requestCache
        /\ now' # now => requestCache' = requestCache]_vars
  /\ [](\A r \in Req : req[r].hit => Outbound(r) = 0 /\ ~req[r].cacheWrote)

C22_Witness ==
  /\ variant = "alertcache"
  /\ DOMAIN requestCache = {<<"A", "A">>, <<"F">>}
  /\ now - requestCache[<<"A", "A">>].timestamp >= CACHE_TTL
  /\ requestCache[<<"F">>].timestamp = now
  /\ \A r \in Req : Finished(r)


\* C23 as written: the cache prevents duplicate rapid requests. Under any
\* interleaving, within one window of 30000 ms (here the first, from the
\* load of the module) at most one quote fetch and at most one stock update
\* are issued for a symbol.
C23_Original ==
  variant \in CachingVariants /\ now < CACHE_TTL
  => \A r \in Req, p \in Req :
       r # p /\ req[r].key # <<>> /\ req[r].key = req[p].key
       => /\ req[r].quoteCalls + req[p].quoteCalls <= 1
          /\ req[r].sendCalls + req[p].sendCalls <= 1

\* C24: the cache follows last-write-wins. Every change of an entry is the
\* write of one succeeding invocation, which stores the pair of its own time
\* of writing and its own payload in one step; nothing else touches the
\* entry, so after two overlapping successes for a symbol the entry is the
\* pair of the later write and never the timestamp of one invocation with
\* the payload of the other.
C24_LastWriteWins ==
  /\ [][\A k \in DOMAIN requestCache' :
          (k \notin DOMAIN requestCache \/ requestCache'[k] # requestCache[k])
          => \E r \in Req :
               /\ req[r].pc = "sending"
               /\ req[r].key = k
               /\ req'[r].cacheWrote
               /\ req'[r].status = 200
               /\ requestCache'[k].timestamp = now
               /\ requestCache'[k].data = req'[r].body
               /\ \A p \in Req \ {r} : req'[p] = req[p]]_vars
  /\ [][\A r \in Req :
          req[r].pc = "sending" /\ req'[r].cacheWrote
          => /\ req[r].key \in DOMAIN requestCache'
             /\ requestCache'[req[r].key].timestamp = now
             /\ requestCache'[req[r].key].data = req'[r].body]_vars
  /\ [](\A k \in DOMAIN requestCache :
          \E p \in Req : /\ req[p].cacheWrote
                         /\ req[p].key = k
                         /\ requestCache[k].data = req[p].body)

C24_Witness ==
  \E r \in Req, p \in Req :
    /\ variant \in CachingVariants
    /\ r # p
    /\ req[r].key = req[p].key
    /\ req[r].seen = "none"
    /\ req[p].seen = "none"
    /\ req[r].cacheWrote
    /\ req[p].cacheWrote
    /\ req[r].body # req[p].body
    /\ requestCache[req[r].key].data = req[r].body
    /\ requestCache[req[r].key].timestamp = now
    /\ now = CACHE_TTL - 1

\* Invocation r has produced its response.
Responded(r) == req[r].status # 0

\* C25: no work outlives an invocation. A response is the last thing an
\* invocation does: once it has answered, it makes no outbound call, no
\* error alert, no retry and no cache write, and every alert and cache
\* write it makes comes before (the cache write right before) its response.
C25_NothingAfterResponse ==
  /\ [](\A r \in Req :
          Responded(r) => Finished(r) /\ req[r].pc \notin {"alerting", "backoff"})
  /\ [][\A r \in Req : Responded(r) => req'[r] = req[r]]_vars
  /\ [][requestCache' # requestCache
        => \E r \in Req : ~Responded(r) /\ Responded(r)' /\ req'[r].cacheWrote]_vars
  /\ [][\A r \in Req :
          Outbound(r)' > Outbound(r) => ~Responded(r) /\ ~Responded(r)']_vars

C25_Witness ==
  \E r \in Req :
    /\ variant = "signal"
    /\ Responded(r)
    /\ req[r].alertCalls = 1
    /\ req[r].alertOk = "true"
    /\ req[r].status = 500
    /\ req[r].quoteCalls = 1

\* C26 as written: in the alerting handlers, with bot token and chat id
\* set, an invocation that ends with a response other than 200 has made
\* exactly one error-alert call, on every failure path.
C26_Original ==
  \A r \in Req :
    /\ variant \in AlertingVariants
    /\ ~Falsy(env.telegramToken)
    /\ ~Falsy(env.chatId)
    /\ Finished(r)
    /\ req[r].status # 200
    => req[r].alertCalls = 1


\* The 5-bar average of a series lies below / above its 20-bar average.
ShortBelowLong(xs) == SumSeq(LastN(xs, 5)) * 20 < SumSeq(LastN(xs, 20)) * 5
ShortAboveLong(xs) == SumSeq(LastN(xs, 5)) * 20 > SumSeq(LastN(xs, 20)) * 5

\* C27 as written: generateSignal returns INSUFFICIENT_DATA for every series
\* of fewer than 20 closing prices, and for every series of 20 or more it
\* returns BUY, SELL or HOLD: BUY exactly when the 5-bar average was below
\* the 20-bar average on the previous bar and is above it on the last bar,
\* SELL exactly when it was above and is now below, HOLD otherwise.
C27_Original ==
  \A r \in Req :
    LET xs == req[r].closes
        sig == req[r].signal
    IN variant = "signal" /\ xs # <<>> /\ req[r].pc # "fetching"
       => /\ Len(xs) < 20 => sig = "INSUFFICIENT_DATA"
          /\ Len(xs) >= 20 => sig \in {"BUY", "SELL", "HOLD"}
          /\ Len(xs) >= 21
             => /\ sig = "BUY" <=> /\ ShortBelowLong(DropLast(xs))
                                   /\ ShortAboveLong(xs)
                /\ sig = "SELL" <=> /\ ShortAboveLong(DropLast(xs))
                                    /\ ShortBelowLong(xs)


====
